---------------------------- MODULE Spec2Model ----------------------------
(***************************************************************************)
(* CAAT Forense - Agroindu S.A. (caat_agroindu_streamlit.py).              *)
(*                                                                         *)
(* One run of the Streamlit script is a straight pipeline: read the four   *)
(* uploads, build the column mappings, apply them, normalise the           *)
(* canonical tables, validate the required inputs (st.stop on failure),    *)
(* run the detection rules tab by tab and build the export workbook.       *)
(*                                                                         *)
(* Text is a sequence of one-character strings.  A missing cell of a file  *)
(* is NaN, the filler of an unmapped column is None.  A timestamp is the   *)
(* number of minutes on a calendar of 31-slot months, NaT is -1.  An       *)
(* amount is a whole number of hundredths.                                 *)
(***************************************************************************)
EXTENDS Integers, Sequences, FiniteSets, TLC

(***************************************************************************)
(* Text                                                                    *)
(***************************************************************************)
NaN  == <<"<NaN>">>
None == <<"<None>">>

IsMissing(c) == c = NaN \/ c = None

Digits == {"0", "1", "2", "3", "4", "5", "6", "7", "8", "9"}

DigitVal(c) ==
    CASE c = "0" -> 0 [] c = "1" -> 1 [] c = "2" -> 2 [] c = "3" -> 3
      [] c = "4" -> 4 [] c = "5" -> 5 [] c = "6" -> 6 [] c = "7" -> 7
      [] c = "8" -> 8 [] c = "9" -> 9

\* Code point order of the characters the inputs use (Python compares str by it).
Ord(c) ==
    CASE c = " " -> 32 [] c = "-" -> 45 [] c = "." -> 46 [] c = ":" -> 58
      [] c \in Digits -> 48 + DigitVal(c)
      [] c = "A" -> 65 [] c = "B" -> 66 [] c = "C" -> 67 [] c = "D" -> 68
      [] c = "I" -> 73 [] c = "N" -> 78 [] c = "_" -> 95
      [] c = "a" -> 97 [] c = "b" -> 98 [] c = "c" -> 99 [] c = "d" -> 100
      [] c = "e" -> 101 [] c = "f" -> 102 [] c = "g" -> 103 [] c = "i" -> 105
      [] c = "l" -> 108 [] c = "m" -> 109 [] c = "n" -> 110 [] c = "o" -> 111
      [] c = "r" -> 114 [] c = "t" -> 116 [] c = "u" -> 117 [] c = "x" -> 120
      [] OTHER -> 127

RECURSIVE StrLess(_, _)
StrLess(a, b) ==
    IF b = <<>> THEN FALSE
    ELSE IF a = <<>> THEN TRUE
    ELSE IF Ord(Head(a)) # Ord(Head(b)) THEN Ord(Head(a)) < Ord(Head(b))
    ELSE StrLess(Tail(a), Tail(b))

RECURSIVE LStrip(_)
LStrip(s) == IF s # <<>> /\ Head(s) = " " THEN LStrip(Tail(s)) ELSE s

RECURSIVE RStrip(_)
RStrip(s) ==
    IF s # <<>> /\ s[Len(s)] = " " THEN RStrip(SubSeq(s, 1, Len(s) - 1)) ELSE s

Strip(s) == RStrip(LStrip(s))

\* Series.astype(str): text stays, NaN becomes "nan", None becomes "None".
AsType_str(c) ==
    IF c = NaN THEN <<"n", "a", "n">>
    ELSE IF c = None THEN <<"N", "o", "n", "e">>
    ELSE c

str_clean(c) == Strip(AsType_str(c))

LowerChar(c) ==
    CASE c = "A" -> "a" [] c = "B" -> "b" [] c = "C" -> "c" [] c = "D" -> "d"
      [] c = "I" -> "i" [] c = "N" -> "n"
      [] OTHER -> c

\* c.strip().lower().replace(" ", "_") of one header
NormHeader(h) ==
    LET s == Strip(h)
    IN  [i \in 1..Len(s) |->
            IF LowerChar(s[i]) = " " THEN "_" ELSE LowerChar(s[i])]

(***************************************************************************)
(* Dates and numbers                                                       *)
(***************************************************************************)
NaT == -1

AllDigits(s) == \A i \in 1..Len(s) : s[i] \in Digits

RECURSIVE DecVal(_)
DecVal(s) == IF s = <<>> THEN 0
             ELSE 10 * DecVal(SubSeq(s, 1, Len(s) - 1)) + DigitVal(s[Len(s)])

IsLeap(y) == (y % 4 = 0 /\ y % 100 # 0) \/ y % 400 = 0

DaysIn(y, m) ==
    IF m = 2 THEN (IF IsLeap(y) THEN 29 ELSE 28)
    ELSE IF m \in {4, 6, 9, 11} THEN 30 ELSE 31

MinutesPerDay == 24 * 60
\* every month gets 31 day slots, so that order, day and month of a date are exact
SlotsPerMonth == 30 + 1

Timestamp(y, m, d, hh, mi) ==
    (((y * 12 + (m - 1)) * SlotsPerMonth + (d - 1)) * 24 + hh) * 60 + mi

\* "YYYY-MM-DD" or "YYYY-MM-DD HH:MM"; anything else does not parse.
ParseDate(s) ==
    LET okDate == /\ Len(s) \in {10, 16}
                  /\ AllDigits(SubSeq(s, 1, 4)) /\ s[5] = "-"
                  /\ AllDigits(SubSeq(s, 6, 7)) /\ s[8] = "-"
                  /\ AllDigits(SubSeq(s, 9, 10))
        okTime == Len(s) = 10 \/
                  (/\ s[11] = " " /\ AllDigits(SubSeq(s, 12, 13))
                   /\ s[14] = ":" /\ AllDigits(SubSeq(s, 15, 16)))
    IN  IF ~(okDate /\ okTime) THEN NaT
        ELSE LET y  == DecVal(SubSeq(s, 1, 4))
                 m  == DecVal(SubSeq(s, 6, 7))
                 d  == DecVal(SubSeq(s, 9, 10))
                 hh == IF Len(s) = 16 THEN DecVal(SubSeq(s, 12, 13)) ELSE 0
                 mi == IF Len(s) = 16 THEN DecVal(SubSeq(s, 15, 16)) ELSE 0
             IN  IF m \in 1..12 /\ d \in 1..DaysIn(y, m) /\ hh < 24 /\ mi < 60
                 THEN Timestamp(y, m, d, hh, mi) ELSE NaT

\* pd.to_datetime(series, errors="coerce"), one cell
to_date(c) == IF IsMissing(c) THEN NaT ELSE ParseDate(Strip(c))

\* Timestamp.to_period("M") and the calendar day of a timestamp
to_period_M(t) == IF t = NaT THEN NaT ELSE t \div (SlotsPerMonth * 24 * 60)
DayOf(t) == t \div MinutesPerDay

\* Decimal text to hundredths: [-]digits[.d[d]]; NaNum when it is no number.
NaNum == -999999999

ParseUnsigned(s) ==
    LET dot == {i \in 1..Len(s) : s[i] = "."}
    IN  IF s = <<>> THEN NaNum
        ELSE IF dot = {} THEN (IF AllDigits(s) THEN 100 * DecVal(s) ELSE NaNum)
        ELSE LET p  == CHOOSE i \in dot : TRUE
                 ip == SubSeq(s, 1, p - 1)
                 fp == SubSeq(s, p + 1, Len(s))
             IN  IF Cardinality(dot) = 1 /\ ip # <<>> /\ AllDigits(ip)
                    /\ Len(fp) \in {1, 2} /\ AllDigits(fp)
                 THEN 100 * DecVal(ip)
                      + (IF Len(fp) = 1 THEN 10 * DecVal(fp) ELSE DecVal(fp))
                 ELSE NaNum

ParseNum(s) ==
    IF s # <<>> /\ Head(s) = "-"
    THEN (IF ParseUnsigned(Tail(s)) = NaNum THEN NaNum ELSE 0 - ParseUnsigned(Tail(s)))
    ELSE ParseUnsigned(s)

\* pd.to_numeric(series, errors="coerce").fillna(0.0), one cell
to_numeric_fillna(c) ==
    IF IsMissing(c) \/ ParseNum(Strip(c)) = NaNum THEN 0 ELSE ParseNum(Strip(c))

(***************************************************************************)
(* Tables.  An uploaded file and the frame read from it hold their rows by *)
(* position under a sequence of headers; a canonical frame holds records   *)
(* under a sequence of field names.  pd.DataFrame() has neither.           *)
(***************************************************************************)
EmptyDF == [cols |-> <<>>, rows |-> <<>>]

\* DataFrame.empty: some axis has length 0
IsEmpty(df) == Len(df.cols) = 0 \/ Len(df.rows) = 0

NoFile == [file |-> FALSE, cols |-> <<>>, rows |-> <<>>]

File(cols, rows) == [file |-> TRUE, cols |-> cols, rows |-> rows]

\* The parsed content of the upload; no upload gives pd.DataFrame().
leer_tabla(upload) ==
    IF ~upload.file THEN EmptyDF ELSE [cols |-> upload.cols, rows |-> upload.rows]

normalizar_cols(df) ==
    [df EXCEPT !.cols = [i \in 1..Len(df.cols) |-> NormHeader(df.cols[i])]]

SeqToSet(s) == {s[i] : i \in 1..Len(s)}

ColIndex(df, v) == CHOOSE i \in 1..Len(df.cols) :
                      /\ df.cols[i] = v
                      /\ \A j \in 1..(i - 1) : df.cols[j] # v

W_cedula == <<"c", "e", "d", "u", "l", "a">>
W_dni == <<"d", "n", "i">>
W_id == <<"i", "d">>
W_identificacion ==
    <<"i", "d", "e", "n", "t", "i", "f", "i", "c", "a", "c", "i", "o", "n">>
W_nombre == <<"n", "o", "m", "b", "r", "e">>
W_empleado == <<"e", "m", "p", "l", "e", "a", "d", "o">>
W_colaborador == <<"c", "o", "l", "a", "b", "o", "r", "a", "d", "o", "r">>
W_fecha_ingreso ==
    <<"f", "e", "c", "h", "a", "_", "i", "n", "g", "r", "e", "s", "o">>
W_f_ingreso == <<"f", "_", "i", "n", "g", "r", "e", "s", "o">>
W_fecha_egreso == <<"f", "e", "c", "h", "a", "_", "e", "g", "r", "e", "s", "o">>
W_f_egreso == <<"f", "_", "e", "g", "r", "e", "s", "o">>
W_baja == <<"b", "a", "j", "a">>
W_fecha_baja == <<"f", "e", "c", "h", "a", "_", "b", "a", "j", "a">>
W_fecha_pago == <<"f", "e", "c", "h", "a", "_", "p", "a", "g", "o">>
W_fecha == <<"f", "e", "c", "h", "a">>
W_periodo == <<"p", "e", "r", "i", "o", "d", "o">>
W_mes == <<"m", "e", "s">>
W_monto == <<"m", "o", "n", "t", "o">>
W_valor == <<"v", "a", "l", "o", "r">>
W_salario == <<"s", "a", "l", "a", "r", "i", "o">>
W_neto_pagar == <<"n", "e", "t", "o", "_", "p", "a", "g", "a", "r">>
W_cuenta_bancaria ==
    <<"c", "u", "e", "n", "t", "a", "_", "b", "a", "n", "c", "a", "r", "i", "a">>
W_cuenta == <<"c", "u", "e", "n", "t", "a">>
W_cta == <<"c", "t", "a">>
W_iban == <<"i", "b", "a", "n">>
W_dia == <<"d", "i", "a">>
W_f_marca == <<"f", "_", "m", "a", "r", "c", "a">>
\* the accented suggestion: one character the inputs never use
W_cedula_acento == <<"c", "é", "d", "u", "l", "a">>
W_apellidos_nombres ==
    <<"a", "p", "e", "l", "l", "i", "d", "o", "s", "_", "n", "o", "m", "b", "r", "e", "s">>

ReqEmpleados ==
    << [key |-> "cedula",
        sug |-> <<W_cedula, W_cedula_acento, W_dni, W_id, W_identificacion>>],
       [key |-> "nombre",
        sug |-> <<W_nombre, W_empleado, W_apellidos_nombres, W_colaborador>>],
       [key |-> "fecha_ingreso", sug |-> <<W_fecha_ingreso, W_f_ingreso>>],
       [key |-> "fecha_egreso",
        sug |-> <<W_fecha_egreso, W_f_egreso, W_baja, W_fecha_baja>>] >>

ReqNomina ==
    << [key |-> "fecha_pago", sug |-> <<W_fecha_pago, W_fecha, W_periodo, W_mes>>],
       [key |-> "cedula", sug |-> <<W_cedula, W_cedula_acento, W_dni, W_id>>],
       [key |-> "nombre", sug |-> <<W_nombre, W_empleado, W_colaborador>>],
       [key |-> "monto", sug |-> <<W_monto, W_valor, W_salario, W_neto_pagar>>],
       [key |-> "cuenta_bancaria",
        sug |-> <<W_cuenta_bancaria, W_cuenta, W_cta, W_iban>>] >>

ReqAsistencia ==
    << [key |-> "cedula", sug |-> <<W_cedula, W_cedula_acento, W_dni, W_id>>],
       [key |-> "fecha", sug |-> <<W_fecha, W_dia, W_f_marca>>] >>

ReqCuentas ==
    << [key |-> "cuenta_bancaria",
        sug |-> <<W_cuenta_bancaria, W_cuenta, W_cta, W_iban>>] >>

Ninguna == <<"(ninguna)">>

NoOverride == [tabla |-> "", key |-> "", col |-> Ninguna]

\* The first suggestion that is a column, else none (index 0 of the selectbox).
Sugerida(sug, cols) ==
    LET hits == {i \in 1..Len(sug) : sug[i] \in SeqToSet(cols)}
    IN  IF hits = {} THEN Ninguna
        ELSE sug[CHOOSE i \in hits : \A j \in hits : i <= j]

\* st.selectbox: what the user picked among the options, else the default index.
Selectbox(titulo, key, cols, sugerida, ov) ==
    IF ov.tabla = titulo /\ ov.key = key /\ ov.col \in ({Ninguna} \cup SeqToSet(cols))
    THEN ov.col ELSE sugerida

NoMapping == <<>>

build_mapping_ui(df, titulo, req_map, ov) ==
    IF IsEmpty(df) THEN NoMapping
    ELSE LET cols == normalizar_cols(df).cols
         IN  [i \in 1..Len(req_map) |->
                 [key |-> req_map[i].key,
                  col |-> Selectbox(titulo, req_map[i].key, cols,
                                    Sugerida(req_map[i].sug, cols), ov)]]

MapKeys(mapping) == {mapping[i].key : i \in 1..Len(mapping)}

MapCol(mapping, k) == (CHOOSE i \in 1..Len(mapping) : mapping[i].key = k)

\* keeps only the fields that got a column, without the None filler
aplicar_mapping_solo_mapeadas(df, mapping) ==
    LET n == normalizar_cols(df)
        Ok(m) == m.col # Ninguna /\ m.col \in SeqToSet(n.cols)
        ms == SelectSeq(mapping, Ok)
    IN  [cols |-> [i \in 1..Len(ms) |-> ms[i].key],
         rows |-> [r \in 1..Len(n.rows) |->
                      [k \in {ms[i].key : i \in 1..Len(ms)} |->
                          n.rows[r][ColIndex(n, (CHOOSE m \in SeqToSet(ms) : m.key = k).col)]]]]

aplicar_mapping(df, mapping) ==
    LET n == normalizar_cols(df)
        Cell(row, k) ==
            LET v == mapping[MapCol(mapping, k)].col
            IN  IF v # Ninguna /\ v \in SeqToSet(n.cols)
                THEN row[ColIndex(n, v)] ELSE None
    IN  [cols |-> [i \in 1..Len(mapping) |-> mapping[i].key],
         rows |-> [r \in 1..Len(n.rows) |->
                      [k \in MapKeys(mapping) |-> Cell(n.rows[r], k)]]]

\* "aplicar_mapping(raw, m) if m else pd.DataFrame()"
Mapped(raw, mapping) ==
    IF mapping # NoMapping THEN aplicar_mapping(raw, mapping) ELSE EmptyDF

MapRows(df, F(_)) == [df EXCEPT !.rows = [i \in 1..Len(df.rows) |-> F(df.rows[i])]]

NormEmpleado(r) ==
    [r EXCEPT !.cedula = str_clean(r.cedula),
              !.nombre = str_clean(r.nombre),
              !.fecha_ingreso = to_date(r.fecha_ingreso),
              !.fecha_egreso = to_date(r.fecha_egreso)]

NormNomina(r) ==
    [r EXCEPT !.cedula = str_clean(r.cedula),
              !.nombre = str_clean(r.nombre),
              !.cuenta_bancaria = str_clean(r.cuenta_bancaria),
              !.fecha_pago = to_date(r.fecha_pago),
              !.monto = to_numeric_fillna(r.monto)]

NormAsistencia(r) ==
    [r EXCEPT !.cedula = str_clean(r.cedula), !.fecha = to_date(r.fecha)]

NormCuenta(r) == [r EXCEPT !.cuenta_bancaria = str_clean(r.cuenta_bancaria)]

NormalizarEmpleados(df) == IF IsEmpty(df) THEN df ELSE MapRows(df, NormEmpleado)
NormalizarNomina(df) == IF IsEmpty(df) THEN df ELSE MapRows(df, NormNomina)
NormalizarAsistencia(df) == IF IsEmpty(df) THEN df ELSE MapRows(df, NormAsistencia)
NormalizarCuentas(df) == IF IsEmpty(df) THEN df ELSE MapRows(df, NormCuenta)

(***************************************************************************)
(* Frame helpers                                                           *)
(***************************************************************************)
\* The rows of s that satisfy Keep, in their order (boolean indexing).
Filter(s, Keep(_)) == SelectSeq(s, Keep)

\* A stable sort: a row goes after the rows that are less and the equal rows before it.
StableSort(s, Less(_, _)) ==
    LET Rank(i) == 1 + Cardinality({j \in 1..Len(s) :
                        Less(s[j], s[i]) \/ (~Less(s[i], s[j]) /\ j < i)})
    IN  [p \in 1..Len(s) |-> s[CHOOSE i \in 1..Len(s) : Rank(i) = p]]

\* The group keys of a groupby, ascending.
SortedKeys(S) ==
    LET Rank(k) == 1 + Cardinality({j \in S : StrLess(j, k)})
    IN  [p \in 1..Cardinality(S) |-> CHOOSE k \in S : Rank(k) = p]

RECURSIVE Concat(_)
Concat(ss) == IF ss = <<>> THEN <<>> ELSE Head(ss) \o Concat(Tail(ss))

RECURSIVE SumMonto(_)
SumMonto(rows) == IF rows = <<>> THEN 0 ELSE Head(rows).monto + SumMonto(Tail(rows))

\* sort_values(["fecha_pago", "cedula"]): ascending, NaT last
DateLess(a, b) == a # NaT /\ (b = NaT \/ a < b)

PagoCedulaLess(r1, r2) ==
    \/ DateLess(r1.fecha_pago, r2.fecha_pago)
    \/ r1.fecha_pago = r2.fecha_pago /\ StrLess(r1.cedula, r2.cedula)

SortPagoCedula(rows) == StableSort(rows, PagoCedulaLess)

MOTIVO_FANTASMA == "No existe en maestro de empleados"
MOTIVO_POST_BAJA == "Pago posterior a fecha de egreso"
MOTIVO_NO_AUT == "Cuenta bancaria no autorizada"
MOTIVO_ASISTENCIA == "Asistencia insuficiente"

ConMotivo(r, m) ==
    [fecha_pago |-> r.fecha_pago, cedula |-> r.cedula, nombre |-> r.nombre,
     monto |-> r.monto, cuenta_bancaria |-> r.cuenta_bancaria, motivo |-> m]

(***************************************************************************)
(* The detection rules                                                     *)
(***************************************************************************)
\* isin without the negation
EsFantasma_sin_negar(r, set_emp) == AsType_str(r.cedula) \in set_emp

\* ~nomina["cedula"].astype(str).isin(set_emp), one row
EsFantasma(r, set_emp) == AsType_str(r.cedula) \notin set_emp

prueba_empleados_fantasma(nomina, empleados) ==
    LET set_emp == {AsType_str(empleados.rows[i].cedula) :
                       i \in {j \in 1..Len(empleados.rows) :
                                 ~IsMissing(empleados.rows[j].cedula)}}
        Keep(r) == EsFantasma(r, set_emp)
        out == Filter(nomina.rows, Keep)
    IN  [cols |-> nomina.cols \o <<"motivo">>,
         rows |-> SortPagoCedula([i \in 1..Len(out) |->
                                     ConMotivo(out[i], MOTIVO_FANTASMA)])]

\* nomina.merge(empleados[["cedula", "nombre", "fecha_egreso"]], on="cedula", how="left")
MergeEmpleados(nomina, empleados) ==
    LET Row(r, nom, egr) ==
            [fecha_pago |-> r.fecha_pago, cedula |-> r.cedula, nombre |-> r.nombre,
             monto |-> r.monto, cuenta_bancaria |-> r.cuenta_bancaria,
             nombre_emp |-> nom, fecha_egreso |-> egr]
        Matches(r) ==
            LET Same(e) == e.cedula = r.cedula
                m == Filter(empleados.rows, Same)
            IN  IF m = <<>> THEN << Row(r, NaN, NaT) >>
                ELSE [j \in 1..Len(m) |-> Row(r, m[j].nombre, m[j].fecha_egreso)]
    IN  Concat([i \in 1..Len(nomina.rows) |-> Matches(nomina.rows[i])])

\* >= where the code has >
PosteriorABaja_mayor_igual(r) ==
    /\ r.fecha_egreso # NaT
    /\ r.fecha_pago # NaT /\ r.fecha_pago >= r.fecha_egreso

\* (~fecha_egreso.isna()) & (fecha_pago > fecha_egreso); a comparison with NaT is False
PosteriorABaja(r) ==
    /\ r.fecha_egreso # NaT
    /\ r.fecha_pago # NaT /\ r.fecha_pago > r.fecha_egreso

prueba_pagos_post_baja(nomina, empleados) ==
    LET merged == MergeEmpleados(nomina, empleados)
        Keep(r) == PosteriorABaja(r)
        out == Filter(merged, Keep)
    IN  [cols |-> nomina.cols \o <<"nombre_emp", "fecha_egreso", "motivo">>,
         rows |-> SortPagoCedula([i \in 1..Len(out) |->
                     [fecha_pago |-> out[i].fecha_pago, cedula |-> out[i].cedula,
                      nombre |-> out[i].nombre, monto |-> out[i].monto,
                      cuenta_bancaria |-> out[i].cuenta_bancaria,
                      nombre_emp |-> out[i].nombre_emp,
                      fecha_egreso |-> out[i].fecha_egreso,
                      motivo |-> MOTIVO_POST_BAJA]])]

\* count() where the code has nunique()
NumCedulas_count(rows, cta) ==
    Cardinality({j \in 1..Len(rows) : rows[j].cuenta_bancaria = cta})

\* groupby("cuenta_bancaria")["cedula"].nunique() of one account
NumCedulas(rows, cta) ==
    Cardinality({rows[i].cedula : i \in {j \in 1..Len(rows) :
                                            rows[j].cuenta_bancaria = cta}})

\* groupby("cedula")["cuenta_bancaria"].nunique() of one employee
NumCuentas(rows, ced) ==
    Cardinality({rows[i].cuenta_bancaria : i \in {j \in 1..Len(rows) :
                                                     rows[j].cedula = ced}})

ResumenLess(a, b) ==
    \/ a.num_cedulas > b.num_cedulas
    \/ a.num_cedulas = b.num_cedulas /\ a.total_pagado > b.total_pagado

HopLess(a, b) == a.num_cuentas > b.num_cuentas

cuentas_multi(nomina) ==
    {c \in {nomina.rows[i].cuenta_bancaria : i \in 1..Len(nomina.rows)} :
        NumCedulas(nomina.rows, c) > 1}

detalle_de(nomina) ==
    LET Keep(r) == r.cuenta_bancaria \in cuentas_multi(nomina)
    IN  [cols |-> nomina.cols, rows |-> Filter(nomina.rows, Keep)]

resumen_de(nomina) ==
    LET det  == detalle_de(nomina).rows
        keys == SortedKeys({det[i].cuenta_bancaria : i \in 1..Len(det)})
        Agg(c) == LET Of(r) == r.cuenta_bancaria = c
                  IN  [cuenta_bancaria |-> c,
                       num_cedulas |-> NumCedulas(det, c),
                       total_pagado |-> SumMonto(Filter(det, Of))]
    IN  [cols |-> <<"cuenta_bancaria", "num_cedulas", "total_pagado">>,
         rows |-> StableSort([i \in 1..Len(keys) |-> Agg(keys[i])], ResumenLess)]

hop_de(nomina) ==
    LET keys == SortedKeys({nomina.rows[i].cedula : i \in 1..Len(nomina.rows)})
        g == [i \in 1..Len(keys) |->
                 [cedula |-> keys[i], num_cuentas |-> NumCuentas(nomina.rows, keys[i])]]
        Multi(r) == r.num_cuentas > 1
    IN  [cols |-> <<"cedula", "num_cuentas">>,
         rows |-> StableSort(Filter(g, Multi), HopLess)]

\* returns (resumen, detalle, hop)
prueba_cuentas_duplicadas(nomina) ==
    [resumen |-> resumen_de(nomina), detalle |-> detalle_de(nomina),
     hop |-> hop_de(nomina)]

\* without the guard on an empty list of authorized accounts
prueba_cuentas_no_autorizadas_sin_guarda(nomina, cuentas_aut) ==
    LET set_aut == {str_clean(cuentas_aut.rows[i].cuenta_bancaria) :
                       i \in 1..Len(cuentas_aut.rows)}
        Keep(r) == r.cuenta_bancaria \notin set_aut
        out == Filter(nomina.rows, Keep)
    IN  [cols |-> nomina.cols \o <<"motivo">>,
         rows |-> SortPagoCedula([i \in 1..Len(out) |->
                                     ConMotivo(out[i], MOTIVO_NO_AUT)])]

prueba_cuentas_no_autorizadas(nomina, cuentas_aut) ==
    IF IsEmpty(cuentas_aut) THEN EmptyDF
    ELSE LET set_aut == {str_clean(cuentas_aut.rows[i].cuenta_bancaria) :
                            i \in 1..Len(cuentas_aut.rows)}
             Keep(r) == r.cuenta_bancaria \notin set_aut
             out == Filter(nomina.rows, Keep)
         IN  [cols |-> nomina.cols \o <<"motivo">>,
              rows |-> SortPagoCedula([i \in 1..Len(out) |->
                                          ConMotivo(out[i], MOTIVO_NO_AUT)])]

(***************************************************************************)
(* Benford.  An amount n of hundredths is the fraction num/den, den = 100. *)
(***************************************************************************)
RECURSIVE ScaleDown(_, _)
\* while n >= 10: n /= 10.0
ScaleDown(num, den) == IF num >= 10 * den THEN ScaleDown(num, den * 10) ELSE <<num, den>>

RECURSIVE ScaleUp(_, _)
\* while 0 < n < 1: n *= 10.0
ScaleUp(num, den) == IF 0 < num /\ num < den THEN ScaleUp(num * 10, den) ELSE <<num, den>>

\* without the loop that scales a value below 1 up
primera_cifra_sin_escalar(n) ==
    LET a == IF n < 0 THEN 0 - n ELSE n
        d == ScaleDown(a, 100)
    IN  IF d[1] >= d[2] THEN d[1] \div d[2] ELSE 0

primera_cifra(n) ==
    LET a == IF n < 0 THEN 0 - n ELSE n
        d == ScaleDown(a, 100)
        u == ScaleUp(d[1], d[2])
    IN  IF u[1] >= u[2] THEN u[1] \div u[2] ELSE 0

\* math.log10(1 + 1/d) in thousandths
exp_p(d) ==
    CASE d = 1 -> 301 [] d = 2 -> 176 [] d = 3 -> 125 [] d = 4 -> 97 [] d = 5 -> 79
      [] d = 6 -> 67 [] d = 7 -> 58 [] d = 8 -> 51 [] d = 9 -> 46

\* a / b to the nearest whole number, b > 0
RoundDiv(a, b) ==
    IF a >= 0 THEN (2 * a + b) \div (2 * b) ELSE 0 - ((2 * (0 - a) + b) \div (2 * b))

RECURSIVE SumOver(_, _)
SumOver(f, S) == IF S = {} THEN 0
                 ELSE LET x == CHOOSE y \in S : TRUE IN f[x] + SumOver(f, S \ {x})

\* montos: the numeric column.  esperado, the percentages and chi2 are in hundredths.
benford_analisis(montos) ==
    LET Pos(x) == x > 0
        pos == Filter(montos, Pos)
    IN  IF Len(pos) = 0 THEN [tabla |-> EmptyDF, chi2 |-> 0]
        ELSE LET obs == [d \in 1..9 |->
                            Cardinality({i \in 1..Len(pos) : primera_cifra(pos[i]) = d})]
                 total == SumOver(obs, 1..9)
                 X == [d \in 1..9 |-> 1000 * obs[d] - exp_p(d) * total]
                 term == [d \in 1..9 |->
                             IF exp_p(d) * total > 0
                             THEN (X[d] * X[d]) \div (10 * exp_p(d) * total) ELSE 0]
             IN  [tabla |->
                    [cols |-> <<"digito", "observado", "esperado", "%_observado",
                                "%_benford", "desv_pct">>,
                     rows |-> [d \in 1..9 |->
                        [digito |-> d,
                         observado |-> obs[d],
                         esperado |-> RoundDiv(exp_p(d) * total, 10),
                         pct_observado |-> IF total # 0
                                           THEN RoundDiv(10000 * obs[d], total) ELSE 0,
                         pct_benford |-> 10 * exp_p(d),
                         desv_pct |-> IF total # 0 THEN RoundDiv(10 * X[d], total)
                                      ELSE 0 - 10 * exp_p(d)]]],
                  chi2 |-> SumOver(term, 1..9)]

(***************************************************************************)
(* Payroll against attendance                                              *)
(***************************************************************************)
\* groupby(["cedula", "anio_mes"])["fecha"].nunique(), 0 for a pair with no group
dias_asistidos(asistencia, ced, mes) ==
    IF mes = NaT THEN 0
    ELSE Cardinality({asistencia.rows[i].fecha :
            i \in {j \in 1..Len(asistencia.rows) :
                      /\ asistencia.rows[j].cedula = ced
                      /\ asistencia.rows[j].fecha # NaT
                      /\ to_period_M(asistencia.rows[j].fecha) = mes}})

prueba_asistencia(nomina, asistencia, min_dias) ==
    IF IsEmpty(asistencia) THEN EmptyDF
    ELSE LET Dias(r) == dias_asistidos(asistencia, r.cedula, to_period_M(r.fecha_pago))
             Keep(r) == Dias(r) < min_dias
             out == Filter(nomina.rows, Keep)
         IN  [cols |-> <<"fecha_pago", "cedula", "nombre", "monto", "cuenta_bancaria",
                         "dias_asistidos", "motivo">>,
              rows |-> SortPagoCedula([i \in 1..Len(out) |->
                          [fecha_pago |-> out[i].fecha_pago, cedula |-> out[i].cedula,
                           nombre |-> out[i].nombre, monto |-> out[i].monto,
                           cuenta_bancaria |-> out[i].cuenta_bancaria,
                           dias_asistidos |-> Dias(out[i]),
                           motivo |-> <<MOTIVO_ASISTENCIA, min_dias>>]])]

(***************************************************************************)
(* The export workbook                                                     *)
(***************************************************************************)
NoVar == "None"

\* (sheet_name, varname) in the order they are written
prueba_sheets(con_benford) ==
    << <<"Empleados_Fantasmas", "df_fantasmas">>,
       <<"Pagos_Post_Baja", "df_post_baja">>,
       <<"Ctas_Compartidas", "resumen_ctas">>,
       <<"Ctas_Compartidas_Detalle", "detalle_ctas">>,
       <<"Empleados_Multicuentas", "hop_ctas">>,
       <<"Ctas_No_Autorizadas", "df_no_aut">>,
       <<"Asistencia_Insuficiente", "df_asistencia_bad">>,
       <<"Benford_Detalle", IF con_benford THEN "tabla_benford" ELSE NoVar>> >>

Sheet(name, df) == [sheet_name |-> name, n_rows |-> Len(df.rows), cols |-> df.cols]

\* without the test for an empty frame
ResultSheets_sin_vacio(sheets, loc) ==
    LET One(e) == IF e[2] # NoVar /\ e[2] \in DOMAIN loc
                  THEN << Sheet(e[1], loc[e[2]]) >> ELSE <<>>
    IN  Concat([i \in 1..Len(sheets) |-> One(sheets[i])])

\* "if varname and varname in loc: ... if not df_out.empty: df_out.to_excel(...)"
ResultSheets(sheets, loc) ==
    LET One(e) == IF e[2] # NoVar /\ e[2] \in DOMAIN loc /\ ~IsEmpty(loc[e[2]])
                  THEN << Sheet(e[1], loc[e[2]]) >> ELSE <<>>
    IN  Concat([i \in 1..Len(sheets) |-> One(sheets[i])])

SourceSheets(nomina, empleados, asistencia, cuentas_aut) ==
    << Sheet("Nomina_Original", nomina), Sheet("Empleados_Original", empleados) >>
    \o (IF ~IsEmpty(asistencia) THEN << Sheet("Asistencia_Original", asistencia) >>
        ELSE <<>>)
    \o (IF ~IsEmpty(cuentas_aut) THEN << Sheet("Ctas_Autorizadas", cuentas_aut) >>
        ELSE <<>>)

(***************************************************************************)
(* One run of the script                                                   *)
(***************************************************************************)
VARIABLES
    up_empleados, up_nomina, up_asistencia, up_cuentas_aut,
    seleccion,              \* what the user changed in a selectbox, if anything
    min_dias_asistencia, analizar_benford,
    df_empleados_raw, df_nomina_raw, df_asistencia_raw, df_cuentas_aut_raw,
    map_emp, map_nom, map_asis, map_ctas,
    df_empleados, df_nomina, df_asistencia, df_cuentas_aut,
    requisitos_ok, mensajes,
    df_fantasmas, df_post_baja, resumen_ctas, detalle_ctas, hop_ctas, df_no_aut,
    tabla_benford, chi2, df_asistencia_bad,
    libro,                  \* the sheets written to the workbook buffer
    ejecutadas,             \* the rules evaluated so far
    pc

entradas == <<up_empleados, up_nomina, up_asistencia, up_cuentas_aut, seleccion,
              min_dias_asistencia, analizar_benford>>
crudas == <<df_empleados_raw, df_nomina_raw, df_asistencia_raw, df_cuentas_aut_raw>>
mapeos == <<map_emp, map_nom, map_asis, map_ctas>>
canonicas == <<df_empleados, df_nomina, df_asistencia, df_cuentas_aut>>
previas == <<requisitos_ok, mensajes>>
hallazgos == <<df_fantasmas, df_post_baja, resumen_ctas, detalle_ctas, hop_ctas,
               df_no_aut, tabla_benford, chi2, df_asistencia_bad>>
vars == <<entradas, crudas, mapeos, canonicas, previas, hallazgos, libro,
          ejecutadas, pc>>

TIT_EMP == "1) Maestro de empleados"
TIT_NOM == "2) Nomina"
TIT_ASIS == "3) Asistencia (opcional)"
TIT_CTAS == "4) Cuentas autorizadas (opcional)"

MSG_REQUISITOS == "Debes cargar al menos Maestro de empleados y Nomina."

\* The state of a run that was given the inputs e.
InitDe(e) ==
    /\ up_empleados = e.emp /\ up_nomina = e.nom
    /\ up_asistencia = e.asis /\ up_cuentas_aut = e.ctas
    /\ seleccion = e.sel
    /\ min_dias_asistencia = e.min_dias /\ analizar_benford = e.benford
    /\ df_empleados_raw = EmptyDF /\ df_nomina_raw = EmptyDF
    /\ df_asistencia_raw = EmptyDF /\ df_cuentas_aut_raw = EmptyDF
    /\ map_emp = NoMapping /\ map_nom = NoMapping
    /\ map_asis = NoMapping /\ map_ctas = NoMapping
    /\ df_empleados = EmptyDF /\ df_nomina = EmptyDF
    /\ df_asistencia = EmptyDF /\ df_cuentas_aut = EmptyDF
    /\ requisitos_ok = TRUE /\ mensajes = <<>>
    /\ df_fantasmas = EmptyDF /\ df_post_baja = EmptyDF
    /\ resumen_ctas = EmptyDF /\ detalle_ctas = EmptyDF /\ hop_ctas = EmptyDF
    /\ df_no_aut = EmptyDF /\ tabla_benford = EmptyDF /\ chi2 = 0
    /\ df_asistencia_bad = EmptyDF
    /\ libro = <<>>
    /\ ejecutadas = {}
    /\ pc = "leer"

LeerTablas ==
    /\ pc = "leer"
    /\ df_empleados_raw' = leer_tabla(up_empleados)
    /\ df_nomina_raw' = leer_tabla(up_nomina)
    /\ df_asistencia_raw' = leer_tabla(up_asistencia)
    /\ df_cuentas_aut_raw' = leer_tabla(up_cuentas_aut)
    /\ pc' = "mapear"
    /\ UNCHANGED <<entradas, mapeos, canonicas, previas, hallazgos, libro, ejecutadas>>

MapearColumnas ==
    /\ pc = "mapear"
    /\ map_emp' = build_mapping_ui(df_empleados_raw, TIT_EMP, ReqEmpleados, seleccion)
    /\ map_nom' = build_mapping_ui(df_nomina_raw, TIT_NOM, ReqNomina, seleccion)
    /\ map_asis' = build_mapping_ui(df_asistencia_raw, TIT_ASIS, ReqAsistencia, seleccion)
    /\ map_ctas' = build_mapping_ui(df_cuentas_aut_raw, TIT_CTAS, ReqCuentas, seleccion)
    /\ pc' = "aplicar"
    /\ UNCHANGED <<entradas, crudas, canonicas, previas, hallazgos, libro, ejecutadas>>

AplicarMapeos ==
    /\ pc = "aplicar"
    /\ df_empleados' = Mapped(df_empleados_raw, map_emp)
    /\ df_nomina' = Mapped(df_nomina_raw, map_nom)
    /\ df_asistencia' = Mapped(df_asistencia_raw, map_asis)
    /\ df_cuentas_aut' = Mapped(df_cuentas_aut_raw, map_ctas)
    /\ pc' = "normalizar"
    /\ UNCHANGED <<entradas, crudas, mapeos, previas, hallazgos, libro, ejecutadas>>

Normalizaciones ==
    /\ pc = "normalizar"
    /\ df_empleados' = NormalizarEmpleados(df_empleados)
    /\ df_nomina' = NormalizarNomina(df_nomina)
    /\ df_asistencia' = NormalizarAsistencia(df_asistencia)
    /\ df_cuentas_aut' = NormalizarCuentas(df_cuentas_aut)
    /\ pc' = "validar"
    /\ UNCHANGED <<entradas, crudas, mapeos, previas, hallazgos, libro, ejecutadas>>

\* "and" where the code has "or"
FaltanRequisitos_and == IsEmpty(df_empleados) /\ IsEmpty(df_nomina)

\* "if df_empleados.empty or df_nomina.empty"
FaltanRequisitos == IsEmpty(df_empleados) \/ IsEmpty(df_nomina)

\* st.warning and st.stop(): the run ends here
ValidarDetiene ==
    /\ pc = "validar"
    /\ FaltanRequisitos
    /\ requisitos_ok' = FALSE
    /\ mensajes' = Append(mensajes, MSG_REQUISITOS)
    /\ pc' = "detenido"
    /\ UNCHANGED <<entradas, crudas, mapeos, canonicas, hallazgos, libro, ejecutadas>>

ValidarPasa ==
    /\ pc = "validar"
    /\ ~FaltanRequisitos
    /\ pc' = "tab1"
    /\ UNCHANGED <<entradas, crudas, mapeos, canonicas, previas, hallazgos, libro,
                   ejecutadas>>

Tab1 ==
    /\ pc = "tab1"
    /\ df_fantasmas' = prueba_empleados_fantasma(df_nomina, df_empleados)
    /\ ejecutadas' = ejecutadas \cup {"prueba_empleados_fantasma"}
    /\ pc' = "tab2"
    /\ UNCHANGED <<entradas, crudas, mapeos, canonicas, previas, df_post_baja,
                   resumen_ctas, detalle_ctas, hop_ctas, df_no_aut, tabla_benford,
                   chi2, df_asistencia_bad, libro>>

Tab2 ==
    /\ pc = "tab2"
    /\ df_post_baja' = prueba_pagos_post_baja(df_nomina, df_empleados)
    /\ ejecutadas' = ejecutadas \cup {"prueba_pagos_post_baja"}
    /\ pc' = "tab3"
    /\ UNCHANGED <<entradas, crudas, mapeos, canonicas, previas, df_fantasmas,
                   resumen_ctas, detalle_ctas, hop_ctas, df_no_aut, tabla_benford,
                   chi2, df_asistencia_bad, libro>>

Tab3 ==
    /\ pc = "tab3"
    /\ LET r == prueba_cuentas_duplicadas(df_nomina)
       IN  /\ resumen_ctas' = r.resumen
           /\ detalle_ctas' = r.detalle
           /\ hop_ctas' = r.hop
    /\ df_no_aut' = prueba_cuentas_no_autorizadas(df_nomina, df_cuentas_aut)
    /\ ejecutadas' = ejecutadas \cup {"prueba_cuentas_duplicadas",
                                      "prueba_cuentas_no_autorizadas"}
    /\ pc' = "tab4"
    /\ UNCHANGED <<entradas, crudas, mapeos, canonicas, previas, df_fantasmas,
                   df_post_baja, tabla_benford, chi2, df_asistencia_bad, libro>>

Montos(nomina) == [i \in 1..Len(nomina.rows) |-> nomina.rows[i].monto]

Tab4 ==
    /\ pc = "tab4"
    /\ IF analizar_benford
       THEN LET b == benford_analisis(Montos(df_nomina))
            IN  /\ tabla_benford' = b.tabla
                /\ chi2' = b.chi2
                /\ ejecutadas' = ejecutadas \cup {"benford_analisis"}
       ELSE UNCHANGED <<tabla_benford, chi2, ejecutadas>>
    /\ pc' = "tab5"
    /\ UNCHANGED <<entradas, crudas, mapeos, canonicas, previas, df_fantasmas,
                   df_post_baja, resumen_ctas, detalle_ctas, hop_ctas, df_no_aut,
                   df_asistencia_bad, libro>>

Tab5 ==
    /\ pc = "tab5"
    /\ IF IsEmpty(df_asistencia)
       THEN /\ df_asistencia_bad' = EmptyDF
            /\ UNCHANGED ejecutadas
       ELSE /\ df_asistencia_bad' =
                  prueba_asistencia(df_nomina, df_asistencia, min_dias_asistencia)
            /\ ejecutadas' = ejecutadas \cup {"prueba_asistencia"}
    /\ pc' = "tab6"
    /\ UNCHANGED <<entradas, crudas, mapeos, canonicas, previas, df_fantasmas,
                   df_post_baja, resumen_ctas, detalle_ctas, hop_ctas, df_no_aut,
                   tabla_benford, chi2, libro>>

\* locals() at module level: the result frames defined so far
Locals ==
    LET siempre == [v \in {"df_fantasmas", "df_post_baja", "resumen_ctas",
                           "detalle_ctas", "hop_ctas", "df_no_aut",
                           "df_asistencia_bad"} |->
                      CASE v = "df_fantasmas" -> df_fantasmas
                        [] v = "df_post_baja" -> df_post_baja
                        [] v = "resumen_ctas" -> resumen_ctas
                        [] v = "detalle_ctas" -> detalle_ctas
                        [] v = "hop_ctas" -> hop_ctas
                        [] v = "df_no_aut" -> df_no_aut
                        [] v = "df_asistencia_bad" -> df_asistencia_bad]
    IN  IF analizar_benford THEN ("tabla_benford" :> tabla_benford) @@ siempre
        ELSE siempre

Tab6 ==
    /\ pc = "tab6"
    /\ libro' = SourceSheets(df_nomina, df_empleados, df_asistencia, df_cuentas_aut)
                \o ResultSheets(prueba_sheets(analizar_benford), Locals)
    /\ pc' = "fin"
    /\ UNCHANGED <<entradas, crudas, mapeos, canonicas, previas, hallazgos, ejecutadas>>

Next ==
    \/ LeerTablas
    \/ MapearColumnas
    \/ AplicarMapeos
    \/ Normalizaciones
    \/ ValidarDetiene
    \/ ValidarPasa
    \/ Tab1
    \/ Tab2
    \/ Tab3
    \/ Tab4
    \/ Tab5
    \/ Tab6

(***************************************************************************)
(* Inputs                                                                  *)
(***************************************************************************)
T_1 == <<"1">>
T_1_izq == <<" ", "1">>
T_1_der == <<"1", " ">>
T_2 == <<"2">>
T_3 == <<"3">>
T_nombre == <<"a">>
T_basura == <<"x">>

F_0101 == <<"2", "0", "2", "4", "-", "0", "1", "-", "0", "1">>
F_0105 == <<"2", "0", "2", "4", "-", "0", "1", "-", "0", "5">>
F_0120 == <<"2", "0", "2", "4", "-", "0", "1", "-", "2", "0">>
F_0210 == <<"2", "0", "2", "4", "-", "0", "2", "-", "1", "0">>
H_0800 == <<" ", "0", "8", ":", "0", "0">>
H_1700 == <<" ", "1", "7", ":", "0", "0">>

C_A == <<"A">>
C_A_pad == <<"A", " ">>
C_B == <<"B">>

M_100 == <<"1", "0", "0">>
M_250 == <<"2", "5", "0">>
M_0_05 == <<"0", ".", "0", "5">>
M_9_9 == <<"9", ".", "9">>
M_0 == <<"0">>
M_neg == <<"-", "4">>

SeqsUpTo(S, n) == UNION {[1..k -> S] : k \in 0..n}

EmpFile(rows) == File(<<W_cedula, W_nombre, W_fecha_ingreso, W_fecha_egreso>>, rows)
NomFile(rows) ==
    File(<<W_fecha_pago, W_cedula, W_nombre, W_monto, W_cuenta_bancaria>>, rows)
AsisFile(rows) == File(<<W_cedula, W_fecha>>, rows)
CtasFile(rows) == File(<<W_cuenta_bancaria>>, rows)

Entrada(emp, nom, asis, ctas, sel, md, bf) ==
    [emp |-> emp, nom |-> nom, asis |-> asis, ctas |-> ctas, sel |-> sel,
     min_dias |-> md, benford |-> bf]

\* A run that cannot start: no employee master was uploaded.
SinMaestro(nom) == Entrada(NoFile, nom, NoFile, NoFile, NoOverride, 1, TRUE)

(***************************************************************************)
(* Ghost employees and payments after termination: identifiers and dates.  *)
(***************************************************************************)
MaxEmpleados == 2
MaxNomina == 2

EmpRowsF == { <<T_1_der, T_nombre, F_0101, F_0105>>,
              <<T_1, T_nombre, F_0101, NaN>>,
              <<T_2, T_nombre, F_0101, F_0105>> }
NomRowsF == {<<p, c, T_nombre, M_100, C_A>> :
                p \in {F_0101, F_0105, F_0120, T_basura}, c \in {T_1_izq, T_3}}

EntradasFantasma ==
    {Entrada(EmpFile(er), NomFile(nr), NoFile, NoFile, NoOverride, 1, TRUE) :
        er \in SeqsUpTo(EmpRowsF, MaxEmpleados), nr \in SeqsUpTo(NomRowsF, MaxNomina)}

InitFantasma == \E e \in EntradasFantasma : InitDe(e)

SpecFantasma == InitFantasma /\ [][Next]_vars

(***************************************************************************)
(* Shared accounts: identifiers, accounts and amounts of the payroll.      *)
(***************************************************************************)
MaxPagos == 4

EmpUno == EmpFile(<< <<T_1, T_nombre, F_0101, NaN>> >>)

NomRowsC == { <<F_0105, T_1, T_nombre, M_100, C_A>>,
              <<F_0105, T_2, T_nombre, M_100, C_A_pad>>,
              <<F_0105, T_3, T_nombre, M_250, C_A>>,
              <<F_0105, T_1, T_nombre, M_100, C_B>>,
              <<F_0120, T_2, T_nombre, M_250, C_B>>,
              <<F_0120, T_1, T_nombre, M_0_05, C_B>> }

EntradasCompartidas ==
    {Entrada(EmpUno, NomFile(nr), NoFile, NoFile, NoOverride, 1, FALSE) :
        nr \in SeqsUpTo(NomRowsC, MaxPagos)}
    \cup {SinMaestro(NomFile(<<>>))}

InitCompartidas == \E e \in EntradasCompartidas : InitDe(e)

SpecCompartidas == InitCompartidas /\ [][Next]_vars

(***************************************************************************)
(* Unauthorized accounts: the accounts paid and the authorized list.       *)
(***************************************************************************)
MaxPagosAut == 2
MaxCuentas == 2

NomRowsA == {<<F_0105, T_1, T_nombre, M_100, c>> : c \in {C_A, C_A_pad, C_B}}
CtaRows == { <<C_A_pad>>, <<C_B>>, <<NaN>> }

SinColumnaCuenta == [tabla |-> TIT_CTAS, key |-> "cuenta_bancaria", col |-> Ninguna]

EntradasNoAut ==
    {Entrada(EmpUno, NomFile(nr), NoFile, c, s, 1, FALSE) :
        nr \in SeqsUpTo(NomRowsA, MaxPagosAut),
        c \in {NoFile} \cup {CtasFile(cr) : cr \in SeqsUpTo(CtaRows, MaxCuentas)},
        s \in {NoOverride, SinColumnaCuenta}}
    \cup {SinMaestro(NomFile(<<>>))}

InitNoAut == \E e \in EntradasNoAut : InitDe(e)

SpecNoAut == InitNoAut /\ [][Next]_vars

(***************************************************************************)
(* Attendance: marks per employee and day, and the minimum of days.        *)
(***************************************************************************)
MaxNominaAsis == 1
MaxMarcas == 2
MaxMinDias == 2

NomRowsS == {<<p, T_1_izq, T_nombre, M_100, C_A>> : p \in {F_0105, F_0210, T_basura}}
AsisRows == {<<c, f>> : c \in {T_1, T_2},
                        f \in {F_0105 \o H_0800, F_0105 \o H_1700,
                               F_0120 \o H_0800, NaN}}

EntradasAsistencia ==
    {Entrada(EmpUno, NomFile(nr), a, NoFile, NoOverride, md, FALSE) :
        nr \in SeqsUpTo(NomRowsS, MaxNominaAsis),
        a \in {NoFile} \cup {AsisFile(ar) : ar \in SeqsUpTo(AsisRows, MaxMarcas)},
        md \in 0..MaxMinDias}
    \cup {SinMaestro(NomFile(<<>>))}

InitAsistencia == \E e \in EntradasAsistencia : InitDe(e)

SpecAsistencia == InitAsistencia /\ [][Next]_vars

(***************************************************************************)
(* Benford: the amounts of the payroll.                                    *)
(***************************************************************************)
MaxMontos == 2

MontosB == {M_100, M_250, M_0_05, M_9_9, M_0, M_neg, T_basura, NaN}
NomRowsB == {<<F_0105, T_1, T_nombre, m, C_A>> : m \in MontosB}

EntradasBenford ==
    {Entrada(EmpUno, NomFile(nr), NoFile, NoFile, NoOverride, 1, bf) :
        nr \in SeqsUpTo(NomRowsB, MaxMontos), bf \in BOOLEAN}
    \cup {SinMaestro(NomFile(<<>>))}

InitBenford == \E e \in EntradasBenford : InitDe(e)

SpecBenford == InitBenford /\ [][Next]_vars

(***************************************************************************)
(* Whole runs: files present, absent or without rows, headers that need    *)
(* the suggestions, a selectbox the user changed.                          *)
(***************************************************************************)
H_DNI == <<" ", "D", "N", "I">>
H_Nombre == <<"N", "o", "m", "b", "r", "e">>
H_ID == <<"I", "D", " ">>

UpEmpleados ==
    { NoFile,
      EmpFile(<<>>),
      EmpFile(<< <<T_1, T_nombre, F_0101, F_0105>> >>),
      File(<<H_DNI, H_Nombre, W_f_ingreso>>,
           << <<T_1_der, T_nombre, F_0101>>, <<T_2, T_nombre, F_0101>> >>) }

UpNomina ==
    { NoFile,
      NomFile(<<>>),
      NomFile(<< <<F_0120, T_1_izq, T_nombre, M_100, C_A>> >>),
      NomFile(<< <<F_0120, T_3, T_nombre, M_0, C_A>>,
                 <<F_0101, T_1, T_nombre, M_neg, C_B>> >>),
      File(<<W_fecha, H_ID, W_empleado, W_salario, W_cta>>,
           << <<F_0105, T_1, T_nombre, M_9_9, C_A>>,
              <<F_0105, T_2, T_nombre, M_250, C_A_pad>>,
              <<F_0210, T_1, T_nombre, M_100, C_B>> >>) }

UpAsistencia ==
    { NoFile,
      AsisFile(<<>>),
      AsisFile(<< <<T_1, F_0120 \o H_0800>> >>) }

UpCuentas ==
    { NoFile,
      CtasFile(<<>>),
      CtasFile(<< <<C_A>> >>) }

Selecciones ==
    { NoOverride,
      [tabla |-> TIT_EMP, key |-> "fecha_egreso", col |-> Ninguna],
      [tabla |-> TIT_NOM, key |-> "cuenta_bancaria", col |-> W_cedula],
      SinColumnaCuenta }

Entradas ==
    {Entrada(e, n, a, c, s, md, bf) :
        e \in UpEmpleados, n \in UpNomina, a \in UpAsistencia, c \in UpCuentas,
        s \in Selecciones, md \in {0, 1}, bf \in BOOLEAN}

Init == \E e \in Entradas : InitDe(e)

Spec == Init /\ [][Next]_vars

(***************************************************************************)
(* Properties                                                              *)
(***************************************************************************)
Indices(df) == 1..Len(df.rows)

\* The payroll fields of a row of findings.
Pago(r) ==
    [fecha_pago |-> r.fecha_pago, cedula |-> r.cedula, nombre |-> r.nombre,
     monto |-> r.monto, cuenta_bancaria |-> r.cuenta_bancaria]

\* How many rows of a frame carry the payroll row p.
Veces(df, p) == Cardinality({k \in Indices(df) : Pago(df.rows[k]) = p})

Corrio(regla) == regla \in ejecutadas

CedulasMaestro == {df_empleados.rows[j].cedula : j \in Indices(df_empleados)}

\* C1: the output of prueba_empleados_fantasma holds a payroll row if and only if its
\* cedula, as a string, is not a cedula of the employee table; every output row is a
\* payroll row with the fixed reason, and none has a cedula of the employee table.
C1_FantasmaExacto ==
    Corrio("prueba_empleados_fantasma") =>
        /\ \A i \in Indices(df_nomina) :
              (Veces(df_fantasmas, df_nomina.rows[i]) > 0)
                  <=> (df_nomina.rows[i].cedula \notin CedulasMaestro)
        /\ \A k \in Indices(df_fantasmas) :
              /\ df_fantasmas.rows[k].motivo = "No existe en maestro de empleados"
              /\ df_fantasmas.rows[k].cedula \notin CedulasMaestro
              /\ \E i \in Indices(df_nomina) :
                    df_nomina.rows[i] = Pago(df_fantasmas.rows[k])

\* A padded identifier of the payroll matched the master, another one was flagged.
C1_Witness ==
    /\ Corrio("prueba_empleados_fantasma")
    /\ \E i \in Indices(df_nomina) :
          /\ Veces(df_fantasmas, df_nomina.rows[i]) = 0
          /\ up_nomina.rows[i][2] # df_nomina.rows[i].cedula
    /\ Len(df_fantasmas.rows) > 0

\* Some employee of that cedula left strictly before the payment.
BajaAnterior(r) ==
    \E j \in Indices(df_empleados) :
        /\ df_empleados.rows[j].cedula = r.cedula
        /\ df_empleados.rows[j].fecha_egreso # NaT
        /\ r.fecha_pago # NaT
        /\ df_empleados.rows[j].fecha_egreso < r.fecha_pago

\* C2: prueba_pagos_post_baja outputs a payroll row if and only if its cedula matches
\* an employee whose fecha_egreso is not null and strictly earlier than the row's
\* fecha_pago; an output row never carries a matched employee with a null fecha_egreso
\* or one at or after fecha_pago, and a row with no matching employee is never output.
C2_PostBajaExacto ==
    Corrio("prueba_pagos_post_baja") =>
        /\ \A i \in Indices(df_nomina) :
              (Veces(df_post_baja, df_nomina.rows[i]) > 0)
                  <=> BajaAnterior(df_nomina.rows[i])
        /\ \A k \in Indices(df_post_baja) :
              LET o == df_post_baja.rows[k]
              IN  /\ o.fecha_egreso # NaT
                  /\ o.fecha_pago # NaT
                  /\ o.fecha_egreso < o.fecha_pago
                  /\ \E i \in Indices(df_nomina) : df_nomina.rows[i] = Pago(o)
                  /\ \E j \in Indices(df_empleados) :
                        /\ df_empleados.rows[j].cedula = o.cedula
                        /\ df_empleados.rows[j].fecha_egreso = o.fecha_egreso

\* One payment after the termination was output; one on the very day of the
\* termination and one of an employee still employed were not.
C2_Witness ==
    /\ Corrio("prueba_pagos_post_baja")
    /\ Len(df_post_baja.rows) > 0
    /\ \E i \in Indices(df_nomina), j \in Indices(df_empleados) :
          /\ df_empleados.rows[j].cedula = df_nomina.rows[i].cedula
          /\ df_empleados.rows[j].fecha_egreso = df_nomina.rows[i].fecha_pago
          /\ df_nomina.rows[i].fecha_pago # NaT
          /\ Veces(df_post_baja, df_nomina.rows[i]) = 0

CuentasAutorizadas ==
    {df_cuentas_aut.rows[j].cuenta_bancaria : j \in Indices(df_cuentas_aut)}

\* C3: prueba_cuentas_no_autorizadas returns no findings whenever the table of
\* authorized accounts is empty or was never supplied; when the table is not empty it
\* outputs exactly the payroll rows whose cuenta_bancaria is not in the authorized set.
C3_NoAutorizadas ==
    Corrio("prueba_cuentas_no_autorizadas") =>
        /\ (~up_cuentas_aut.file \/ Len(up_cuentas_aut.rows) = 0 \/ IsEmpty(df_cuentas_aut))
              => Len(df_no_aut.rows) = 0
        /\ ~IsEmpty(df_cuentas_aut) =>
              /\ \A i \in Indices(df_nomina) :
                    (Veces(df_no_aut, df_nomina.rows[i]) > 0)
                        <=> (df_nomina.rows[i].cuenta_bancaria \notin CuentasAutorizadas)
              /\ \A r \in SeqToSet(df_nomina.rows) :
                    Veces(df_no_aut, r) \in {0, Veces(df_nomina, r)}
              /\ \A k \in Indices(df_no_aut) :
                    \E i \in Indices(df_nomina) :
                        df_nomina.rows[i] = Pago(df_no_aut.rows[k])

\* No list of authorized accounts was uploaded, the payroll has payments, no findings.
C3_Witness ==
    /\ Corrio("prueba_cuentas_no_autorizadas")
    /\ ~up_cuentas_aut.file
    /\ Len(df_nomina.rows) > 0
    /\ Len(df_no_aut.rows) = 0

CedulasDe(c) ==
    {df_nomina.rows[i].cedula :
        i \in {j \in Indices(df_nomina) : df_nomina.rows[j].cuenta_bancaria = c}}

RECURSIVE TotalDe(_, _)
\* The sum of monto over the first n payroll rows of account c.
TotalDe(c, n) ==
    IF n = 0 THEN 0
    ELSE TotalDe(c, n - 1)
         + (IF df_nomina.rows[n].cuenta_bancaria = c THEN df_nomina.rows[n].monto ELSE 0)

CuentasNomina == {df_nomina.rows[i].cuenta_bancaria : i \in Indices(df_nomina)}

FilasResumen(c) ==
    {k \in Indices(resumen_ctas) : resumen_ctas.rows[k].cuenta_bancaria = c}

DiasDelMes(r) ==
    {DayOf(df_asistencia.rows[j].fecha) :
        j \in {a \in Indices(df_asistencia) :
                  /\ df_asistencia.rows[a].cedula = r.cedula
                  /\ df_asistencia.rows[a].fecha # NaT
                  /\ r.fecha_pago # NaT
                  /\ to_period_M(df_asistencia.rows[a].fecha) = to_period_M(r.fecha_pago)}}

\* C5: with a non-empty attendance table, prueba_asistencia outputs a payroll row if and
\* only if the number of distinct attendance dates of the same cedula in the calendar
\* month of the row's fecha_pago is less than min_dias, a pair with no attendance
\* counting as 0 days; with min_dias = 0 no row is output.
C5_Asistencia ==
    Corrio("prueba_asistencia") =>
        /\ \A i \in Indices(df_nomina) :
              (Veces(df_asistencia_bad, df_nomina.rows[i]) > 0)
                  <=> (Cardinality(DiasDelMes(df_nomina.rows[i])) < min_dias_asistencia)
        /\ min_dias_asistencia = 0 => Len(df_asistencia_bad.rows) = 0

\* The frames of payroll rows a rule has produced so far.
SalidasDeFilas ==
    (IF Corrio("prueba_empleados_fantasma") THEN {df_fantasmas} ELSE {})
    \cup (IF Corrio("prueba_pagos_post_baja") THEN {df_post_baja} ELSE {})
    \cup (IF Corrio("prueba_cuentas_duplicadas") THEN {detalle_ctas} ELSE {})
    \cup (IF Corrio("prueba_cuentas_no_autorizadas") THEN {df_no_aut} ELSE {})
    \cup (IF Corrio("prueba_asistencia") THEN {df_asistencia_bad} ELSE {})

\* C6: the rules that output payroll rows preserve the identity of the input rows, also
\* when a cedula is repeated in the employee master: a payroll row is in a rule's output
\* at most once, and every output row is one payroll row.
C6_IdentidadDeFilas ==
    \A out \in SalidasDeFilas :
        \A k \in Indices(out) :
            /\ Veces(df_nomina, Pago(out.rows[k])) >= 1
            /\ Veces(out, Pago(out.rows[k])) <= Veces(df_nomina, Pago(out.rows[k]))

CamposEmpleados == <<"cedula", "nombre", "fecha_ingreso", "fecha_egreso">>
CamposNomina == <<"fecha_pago", "cedula", "nombre", "monto", "cuenta_bancaria">>
CamposAsistencia == <<"cedula", "fecha">>
CamposCuentas == <<"cuenta_bancaria">>

Mapeado == pc \notin {"leer", "mapear", "aplicar"}

TieneCampos(df, campos) ==
    /\ SeqToSet(df.cols) = SeqToSet(campos)
    /\ \A i \in Indices(df) : DOMAIN df.rows[i] = SeqToSet(campos)

CamposSiHayFilas(up, df, campos) ==
    IF up.file /\ Len(up.rows) > 0 /\ Len(up.cols) > 0
    THEN df.cols = campos /\ TieneCampos(df, campos) /\ Len(df.rows) = Len(up.rows)
    ELSE df = EmptyDF

SinFilas(df) == Len(df.rows) = 0 \/ Len(df.cols) = 0

SinArchivo(up) == ~up.file \/ Len(up.rows) = 0

\* C8: when the employee master or the payroll is absent or empty after the mapping, the
\* run halts with a warning before any rule runs: no rule is evaluated and no workbook
\* is built in such a run.
C8_Requisitos ==
    /\ (SinArchivo(up_empleados) \/ SinArchivo(up_nomina))
          => ejecutadas = {} /\ libro = <<>> /\ pc \in {"leer", "mapear", "aplicar",
                                                       "normalizar", "validar", "detenido"}
    /\ (pc \notin {"leer", "mapear", "aplicar", "normalizar", "validar"}
        /\ (SinFilas(df_empleados) \/ SinFilas(df_nomina)))
          => /\ pc = "detenido"
             /\ ~requisitos_ok
             /\ mensajes = <<MSG_REQUISITOS>>
             /\ ejecutadas = {}
             /\ libro = <<>>
    /\ pc = "detenido" => (SinFilas(df_empleados) \/ SinFilas(df_nomina))

\* The payroll was uploaded with rows, the master was not: the run stopped with the warning.
C8_Witness ==
    /\ pc = "detenido"
    /\ Len(df_nomina.rows) > 0
    /\ ~up_empleados.file
    /\ mensajes # <<>>

Hojas(nombre) == {k \in 1..Len(libro) : libro[k].sheet_name = nombre}

UnaHojaSiHayFilas(nombre, df) ==
    /\ Cardinality(Hojas(nombre)) = IF Len(df.rows) > 0 THEN 1 ELSE 0
    /\ \A k \in Hojas(nombre) : libro[k].n_rows = Len(df.rows) /\ libro[k].cols = df.cols

\* C9: in the exported workbook each findings table that is not empty is exactly one
\* named sheet and each empty findings table is omitted; the Benford sheet is also
\* omitted whenever the Benford test is disabled.
C9_HojasDelLibro ==
    pc = "fin" =>
        /\ UnaHojaSiHayFilas("Empleados_Fantasmas", df_fantasmas)
        /\ UnaHojaSiHayFilas("Pagos_Post_Baja", df_post_baja)
        /\ UnaHojaSiHayFilas("Ctas_Compartidas", resumen_ctas)
        /\ UnaHojaSiHayFilas("Ctas_Compartidas_Detalle", detalle_ctas)
        /\ UnaHojaSiHayFilas("Empleados_Multicuentas", hop_ctas)
        /\ UnaHojaSiHayFilas("Ctas_No_Autorizadas", df_no_aut)
        /\ UnaHojaSiHayFilas("Asistencia_Insuficiente", df_asistencia_bad)
        /\ IF analizar_benford
           THEN UnaHojaSiHayFilas("Benford_Detalle", tabla_benford)
           ELSE Hojas("Benford_Detalle") = {}

\* A workbook with the sheet of the ghosts, without the sheet of the payments after
\* termination (none found) and without the Benford sheet (test disabled).
C9_Witness ==
    /\ pc = "fin"
    /\ Hojas("Empleados_Fantasmas") # {}
    /\ Hojas("Pagos_Post_Baja") = {}
    /\ Len(df_post_baja.rows) = 0
    /\ ~analizar_benford
    /\ \E i \in Indices(df_nomina) : df_nomina.rows[i].monto > 0

Positivos == {i \in Indices(df_nomina) : df_nomina.rows[i].monto > 0}

\* The amounts of the file that are no positive number.
SinValor == {M_0, M_neg, T_basura, NaN}

=============================================================================
